---- MODULE Spec2Model ----
(***************************************************************************)
(* KZG polynomial commitments (src/src/lib.rs): setup, KZGProver           *)
(* (commit / open / create_witness) and KZGVerifier (verify_poly /         *)
(* verify_eval).                                                           *)
(*                                                                         *)
(* The pairing engine E is a black box of the crate.  Its three groups     *)
(* G1, G2, GT have the same prime order as the scalar field Fr, so every   *)
(* group element is k * generator for exactly one k in Fr; an element is   *)
(* modelled by that k ("n"), tagged with its representation ("rep"):       *)
(* affine (stored, compared) or projective (accumulated).  The pairing is  *)
(* the bilinear, non-degenerate map e(a*g, b*h) = (a*b) * e(g, h).         *)
(***************************************************************************)
EXTENDS Integers, Sequences, FiniteSets, TLC

\* Order of the scalar field E::Fr (and of G1, G2, GT).  The engine's order
\* is a large prime; a small odd prime stands for it (in a field of order 2
\* negation is the identity and signs could not be told apart).
FrOrder == 3

\* The const generic MAX_DEGREE: capacity of every coefficient array.
MAX_DEGREE == 3

Fr == 0 .. (FrOrder - 1)
Idx == 0 .. (MAX_DEGREE - 1)

----------------------------------------------------------------------------
\* Field arithmetic of E::Fr (ff::Field)

FrZero == 0
FrOne == 1 % FrOrder
FrAdd(a, b) == (a + b) % FrOrder
FrNeg(a) == (FrOrder - a) % FrOrder
FrSub(a, b) == (a + FrOrder - b) % FrOrder
FrMul(a, b) == (a * b) % FrOrder
FrInv(a) == CHOOSE b \in Fr : (a * b) % FrOrder = FrOne

----------------------------------------------------------------------------
\* Group elements: E::G1Affine / E::G1 and E::G2Affine / E::G2, and Gt

G1Affine == [rep : {"G1Affine"}, n : Fr]
G2Affine == [rep : {"G2Affine"}, n : Fr]

G1Generator == [rep |-> "G1Affine", n |-> FrOne]
G2Generator == [rep |-> "G2Affine", n |-> FrOne]
G1Identity == [rep |-> "G1", n |-> FrZero]

\* Curve::to_affine and PrimeCurveAffine::to_curve
to_affine(p) ==
    IF p.rep = "G1" THEN [rep |-> "G1Affine", n |-> p.n]
    ELSE IF p.rep = "G2" THEN [rep |-> "G2Affine", n |-> p.n]
    ELSE p
to_curve(p) ==
    IF p.rep = "G1Affine" THEN [rep |-> "G1", n |-> p.n]
    ELSE IF p.rep = "G2Affine" THEN [rep |-> "G2", n |-> p.n]
    ELSE p

\* affine (or projective) point * scalar: a projective point
Mul(p, c) == [rep |-> to_curve(p).rep, n |-> FrMul(p.n, c)]
\* projective + projective, projective - projective
Add(p, q) == [rep |-> to_curve(p).rep, n |-> FrAdd(p.n, q.n)]
Sub(p, q) == [rep |-> to_curve(p).rep, n |-> FrSub(p.n, q.n)]

\* E::pairing(&G1Affine, &G2Affine) -> Gt
pairing(p, q) == [rep |-> "Gt", n |-> FrMul(p.n, q.n)]

----------------------------------------------------------------------------
\* Option and Result values

None == [some |-> FALSE]
Some(v) == [some |-> TRUE, val |-> v]
Ok(v) == [ok |-> TRUE, val |-> v]
Err(e) == [ok |-> FALSE, err |-> e]
NoPolynomial == "NoPolynomial"
PointNotOnPolynomial == "PointNotOnPolynomial"

----------------------------------------------------------------------------
\* polynomial::Polynomial: a degree and MAX_DEGREE coefficients, coeffs[0]
\* the constant term

ZeroCoeffs == [i \in Idx |-> FrZero]
new_from_coeffs(coeffs, degree) == [degree |-> degree, coeffs |-> coeffs]

\* The polynomials a caller can build: degree < MAX_DEGREE and every
\* coefficient beyond degree zero.
Polynomials ==
    { p \in [degree : Idx, coeffs : [Idx -> Fr]] :
        \A i \in Idx : i > p.degree => p.coeffs[i] = FrZero }

IsZeroCoeffs(c) == \A i \in Idx : c[i] = FrZero

\* One step of schoolbook division at index i of the running remainder r:
\* the quotient coefficient t cancels r[i] against the divisor's leading
\* coefficient, and t * X^(i - dd) * divisor is subtracted from r.
RECURSIVE DivSteps(_, _, _, _)
DivSteps(r, q, i, divisor) ==
    LET dd == divisor.degree
    IN  IF i < dd THEN [quotient |-> q, rem |-> r]
        ELSE LET t  == FrMul(r[i], FrInv(divisor.coeffs[dd]))
                 r2 == [j \in Idx |->
                          IF j >= i - dd /\ j <= i
                          THEN FrSub(r[j], FrMul(t, divisor.coeffs[j - (i - dd)]))
                          ELSE r[j]]
                 q2 == [q EXCEPT ![i - dd] = t]
             IN  DivSteps(r2, q2, i - 1, divisor)

\* Polynomial::long_division: (quotient, Some(remainder)), or
\* (quotient, None) exactly when the division is exact.
long_division(dividend, divisor) ==
    LET d   == DivSteps(dividend.coeffs, ZeroCoeffs, dividend.degree, divisor)
        qd  == IF dividend.degree >= divisor.degree
               THEN dividend.degree - divisor.degree ELSE 0
        rd  == IF divisor.degree > 0 /\ dividend.degree >= divisor.degree
               THEN divisor.degree - 1 ELSE dividend.degree
    IN  [quotient  |-> new_from_coeffs(d.quotient, qd),
         remainder |-> IF IsZeroCoeffs(d.rem) THEN None
                       ELSE Some(new_from_coeffs(d.rem, rd))]

----------------------------------------------------------------------------
\* setup(s): the generators and the powers gs[k] = s * gs[k-1], gs[0] = s * g

setup(s) ==
    LET g == G1Generator
        h == G2Generator
        gs[k \in Idx] == IF k = 0 THEN to_affine(Mul(g, s))
                         ELSE to_affine(Mul(gs[k - 1], s))
        hs[k \in Idx] == IF k = 0 THEN to_affine(Mul(h, s))
                         ELSE to_affine(Mul(hs[k - 1], s))
    IN  [g |-> g, h |-> h, gs |-> gs, hs |-> hs]

----------------------------------------------------------------------------
\* Newtypes KZGCommitment(E::G1Affine) and KZGWitness(E::G1Affine): the
\* type's name and the wrapped element, which Dot0 (field .0) reads.

KZGCommitment(p) == <<"KZGCommitment", p>>
KZGWitness(p) == <<"KZGWitness", p>>
Dot0(t) == t[2]

Commitments == { KZGCommitment(p) : p \in G1Affine }
Witnesses == { KZGWitness(p) : p \in G1Affine }

----------------------------------------------------------------------------
\* KZGProver

\* commit with the constant coefficient multiplied by gs[0] instead of g
commit_constant_on_gs(parameters, polynomial) ==
    LET acc[k \in 0 .. MAX_DEGREE] ==
            IF k = 0 THEN G1Identity
            ELSE LET i == k - 1
                 IN  IF i = 0
                     THEN Add(acc[k - 1], Mul(parameters.gs[0], polynomial.coeffs[i]))
                     ELSE Add(acc[k - 1], Mul(parameters.gs[i - 1], polynomial.coeffs[i]))
    IN  KZGCommitment(to_affine(acc[MAX_DEGREE]))

\* commit, the value returned: the loop over polynomial.coeffs adds
\* g * coeffs[0] and gs[i - 1] * coeffs[i]; acc[k] is the accumulator after
\* k iterations.
commit(parameters, polynomial) ==
    LET acc[k \in 0 .. MAX_DEGREE] ==
            IF k = 0 THEN G1Identity
            ELSE LET i == k - 1
                 IN  IF i = 0
                     THEN Add(acc[k - 1], Mul(parameters.g, polynomial.coeffs[i]))
                     ELSE Add(acc[k - 1], Mul(parameters.gs[i - 1], polynomial.coeffs[i]))
    IN  KZGCommitment(to_affine(acc[MAX_DEGREE]))

\* open: self.polynomial.clone().ok_or(NoPolynomial)
open(polynomial) ==
    IF polynomial.some THEN Ok(polynomial.val) ELSE Err(NoPolynomial)

\* create_witness dividing by X + x: the divisor's constant term not negated
create_witness_divisor_sign(parameters, polynomial, x, y) ==
    IF ~polynomial.some THEN Err(NoPolynomial)
    ELSE LET dividend == [polynomial.val EXCEPT
                            !.coeffs[0] = FrSub(polynomial.val.coeffs[0], y)]
             divisor  == [new_from_coeffs(ZeroCoeffs, 1) EXCEPT
                            !.coeffs[0] = x, !.coeffs[1] = FrOne]
             division == long_division(dividend, divisor)
             psi      == division.quotient
             acc[k \in 0 .. MAX_DEGREE] ==
                 IF k = 0 THEN G1Identity
                 ELSE LET i == k - 1
                      IN  IF i = 0
                          THEN Add(acc[k - 1], Mul(parameters.g, psi.coeffs[i]))
                          ELSE Add(acc[k - 1], Mul(parameters.gs[i - 1], psi.coeffs[i]))
         IN  IF division.remainder.some THEN Err(PointNotOnPolynomial)
             ELSE Ok(KZGWitness(to_affine(acc[MAX_DEGREE])))

\* create_witness, the value returned
create_witness(parameters, polynomial, x, y) ==
    IF ~polynomial.some THEN Err(NoPolynomial)
    ELSE LET dividend == [polynomial.val EXCEPT
                            !.coeffs[0] = FrSub(polynomial.val.coeffs[0], y)]
             divisor  == [new_from_coeffs(ZeroCoeffs, 1) EXCEPT
                            !.coeffs[0] = FrNeg(x), !.coeffs[1] = FrOne]
             division == long_division(dividend, divisor)
             psi      == division.quotient
             acc[k \in 0 .. MAX_DEGREE] ==
                 IF k = 0 THEN G1Identity
                 ELSE LET i == k - 1
                      IN  IF i = 0
                          THEN Add(acc[k - 1], Mul(parameters.g, psi.coeffs[i]))
                          ELSE Add(acc[k - 1], Mul(parameters.gs[i - 1], psi.coeffs[i]))
         IN  IF division.remainder.some THEN Err(PointNotOnPolynomial)
             ELSE Ok(KZGWitness(to_affine(acc[MAX_DEGREE])))

----------------------------------------------------------------------------
\* KZGVerifier

\* verify_poly whose loop stops one coefficient early
verify_poly_skips_last(parameters, commitment, polynomial) ==
    LET check[k \in 0 .. MAX_DEGREE - 1] ==
            IF k = 0 THEN G1Identity
            ELSE LET i == k - 1
                 IN  IF i = 0
                     THEN Add(check[k - 1], Mul(parameters.g, polynomial.coeffs[i]))
                     ELSE Add(check[k - 1], Mul(parameters.gs[i - 1], polynomial.coeffs[i]))
    IN  to_affine(check[MAX_DEGREE - 1]) = Dot0(commitment)

\* verify_poly that leaves the constant coefficient out of the sum
verify_poly_ignores_constant(parameters, commitment, polynomial) ==
    LET check[k \in 0 .. MAX_DEGREE] ==
            IF k = 0 THEN G1Identity
            ELSE LET i == k - 1
                 IN  IF i = 0
                     THEN check[k - 1]
                     ELSE Add(check[k - 1], Mul(parameters.gs[i - 1], polynomial.coeffs[i]))
    IN  to_affine(check[MAX_DEGREE]) = Dot0(commitment)

\* verify_poly: the same accumulation as commit, compared in canonical form
verify_poly(parameters, commitment, polynomial) ==
    LET check[k \in 0 .. MAX_DEGREE] ==
            IF k = 0 THEN G1Identity
            ELSE LET i == k - 1
                 IN  IF i = 0
                     THEN Add(check[k - 1], Mul(parameters.g, polynomial.coeffs[i]))
                     ELSE Add(check[k - 1], Mul(parameters.gs[i - 1], polynomial.coeffs[i]))
    IN  to_affine(check[MAX_DEGREE]) = Dot0(commitment)

verify_eval(parameters, x, y, commitment, witness) ==
    LET lhs == pairing(Dot0(witness),
                       to_affine(Add(to_curve(parameters.hs[0]),
                                     Mul(parameters.h, FrNeg(x)))))
        rhs == pairing(to_affine(Sub(to_curve(Dot0(commitment)),
                                     Mul(parameters.g, FrNeg(y)))),
                       parameters.h)
    IN  lhs = rhs

----------------------------------------------------------------------------
\* State

VARIABLES
    trapdoor,       \* the scalar s given to setup (kept to state the claims)
    parameters,     \* KZGProver.parameters
    polynomial,     \* KZGProver.polynomial : Option<Polynomial>
    commitment,     \* KZGProver.commitment : Option<KZGCommitment>
    batch_witness,  \* KZGProver.batch_witness : Option<G1>
    witnesses,      \* KZGProver.witnesses : [Option<G1Affine>; MAX_DEGREE]
    verifier,       \* KZGVerifier { parameters }
    committed,      \* the latest commit call: its argument, its result, and
                    \* whether it replaced a polynomial of other coefficients
    witnessed,      \* the latest witness returned since the latest commit
    ret             \* the latest call: operation, arguments, value returned

prover == <<parameters, polynomial, commitment, batch_witness, witnesses>>
vars == <<trapdoor, parameters, polynomial, commitment, batch_witness,
          witnesses, verifier, committed, witnessed, ret>>

\* KZGProver::new(params.clone()) and KZGVerifier::new(params) on
\* params = setup(s)
Init ==
    \E s \in Fr :
        /\ trapdoor = s
        /\ parameters = setup(s)
        /\ polynomial = None
        /\ commitment = None
        /\ batch_witness = None
        /\ witnesses = [i \in Idx |-> None]
        /\ verifier = [parameters |-> setup(s)]
        /\ committed = None
        /\ witnessed = None
        /\ ret = [op |-> "new"]

\* commit that returns the commitment without storing the polynomial
Commit_forgets_polynomial(p) ==
    /\ polynomial' = polynomial
    /\ ret' = [op |-> "commit", polynomial |-> p,
               result |-> commit(parameters, p)]
    /\ committed' = Some([polynomial |-> p,
                          commitment |-> commit(parameters, p),
                          overwrote  |-> polynomial.some
                                         /\ polynomial.val.coeffs # p.coeffs])
    /\ witnessed' = None
    /\ UNCHANGED <<trapdoor, parameters, commitment, batch_witness,
                   witnesses, verifier>>

\* commit that stores the polynomial only when none is stored yet
Commit_keeps_first(p) ==
    /\ polynomial' = IF polynomial.some THEN polynomial ELSE Some(p)
    /\ ret' = [op |-> "commit", polynomial |-> p,
               result |-> commit(parameters, p)]
    /\ committed' = Some([polynomial |-> p,
                          commitment |-> commit(parameters, p),
                          overwrote  |-> polynomial.some
                                         /\ polynomial.val.coeffs # p.coeffs])
    /\ witnessed' = None
    /\ UNCHANGED <<trapdoor, parameters, commitment, batch_witness,
                   witnesses, verifier>>

\* commit: stores the polynomial, returns the commitment
Commit(p) ==
    /\ polynomial' = Some(p)
    /\ ret' = [op |-> "commit", polynomial |-> p,
               result |-> commit(parameters, p)]
    /\ committed' = Some([polynomial |-> p,
                          commitment |-> commit(parameters, p),
                          overwrote  |-> polynomial.some
                                         /\ polynomial.val.coeffs # p.coeffs])
    /\ witnessed' = None
    /\ UNCHANGED <<trapdoor, parameters, commitment, batch_witness,
                   witnesses, verifier>>

Open ==
    /\ ret' = [op |-> "open", result |-> open(polynomial)]
    /\ UNCHANGED <<trapdoor, prover, verifier, committed, witnessed>>

\* create_witness that subtracts y from the stored polynomial itself
CreateWitness_in_place(x, y) ==
    LET r == create_witness(parameters, polynomial, x, y)
    IN  /\ ret' = [op |-> "create_witness", x |-> x, y |-> y, result |-> r]
        /\ witnessed' = IF r.ok THEN Some([x |-> x, y |-> y, witness |-> r.val])
                        ELSE witnessed
        /\ polynomial' = IF polynomial.some
                         THEN Some([polynomial.val EXCEPT
                                 !.coeffs[0] = FrSub(polynomial.val.coeffs[0], y)])
                         ELSE polynomial
        /\ UNCHANGED <<trapdoor, parameters, commitment, batch_witness,
                       witnesses, verifier, committed>>

\* create_witness: returns the witness or the error, stores nothing
CreateWitness(x, y) ==
    LET r == create_witness(parameters, polynomial, x, y)
    IN  /\ ret' = [op |-> "create_witness", x |-> x, y |-> y, result |-> r]
        /\ witnessed' = IF r.ok THEN Some([x |-> x, y |-> y, witness |-> r.val])
                        ELSE witnessed
        /\ UNCHANGED <<trapdoor, prover, verifier, committed>>

VerifyPoly(c, p) ==
    /\ ret' = [op |-> "verify_poly", commitment |-> c, polynomial |-> p,
               result |-> verify_poly(verifier.parameters, c, p)]
    /\ UNCHANGED <<trapdoor, prover, verifier, committed, witnessed>>

VerifyEval(x, y, c, w) ==
    /\ ret' = [op |-> "verify_eval", x |-> x, y |-> y, commitment |-> c,
               witness |-> w,
               result |-> verify_eval(verifier.parameters, x, y, c, w)]
    /\ UNCHANGED <<trapdoor, prover, verifier, committed, witnessed>>

NextCommit == \E p \in Polynomials : Commit(p)
NextOpen == Open
NextCreateWitness == \E x \in Fr, y \in Fr : CreateWitness(x, y)
\* verify_poly is given the commitment the caller got from the prover
HeldCommitments == IF committed.some THEN {committed.val.commitment} ELSE {}
NextVerifyPoly == \E c \in HeldCommitments, p \in Polynomials : VerifyPoly(c, p)
\* verify_eval on any point, commitment and witness, honest or not
NextVerifyEval ==
    \E x \in Fr, y \in Fr, c \in Commitments, w \in Witnesses :
        VerifyEval(x, y, c, w)
\* verify_eval on the point and witness the caller got from create_witness,
\* against any commitment
HeldWitnesses == IF witnessed.some THEN {witnessed.val} ELSE {}
NextVerifyHeld ==
    \E hw \in HeldWitnesses, c \in Commitments :
        VerifyEval(hw.x, hw.y, c, hw.witness)

\* The prover's operations
Next == NextCommit \/ NextOpen \/ NextCreateWitness
Spec == Init /\ [][Next]_vars

\* Commitments checked by full opening
NextPoly == NextCommit \/ NextVerifyPoly
SpecPoly == Init /\ [][NextPoly]_vars

\* Evaluation proofs: commit, create_witness, then verify_eval
NextEval == NextCommit \/ NextCreateWitness \/ NextVerifyHeld
SpecEval == Init /\ [][NextEval]_vars

\* The pairing check alone, on every input
NextPairing == NextVerifyEval
SpecPairing == Init /\ [][NextPairing]_vars

----------------------------------------------------------------------------
\* Vocabulary of the claims

\* P(x) in Fr, by Horner's rule from the highest coefficient down
Evaluate(coeffs, x) ==
    LET hv[k \in 0 .. MAX_DEGREE] ==
            IF k = 0 THEN FrZero
            ELSE FrAdd(FrMul(hv[k - 1], x), coeffs[MAX_DEGREE - k])
    IN  hv[MAX_DEGREE]

\* s^k in Fr
Pow(s, k) ==
    LET pw[j \in 0 .. k] == IF j = 0 THEN FrOne ELSE FrMul(pw[j - 1], s)
    IN  pw[k]

\* k * g in canonical form
G1Of(k) == [rep |-> "G1Affine", n |-> k]
G2Of(k) == [rep |-> "G2Affine", n |-> k]

IsErr(r, e) == ~r.ok /\ r.err = e

\* the latest call was verify_eval on the point and witness of the latest
\* create_witness that succeeded on the polynomial the prover holds
VerifiedHeldWitness ==
    /\ ret.op = "verify_eval"
    /\ committed.some
    /\ witnessed.some
    /\ ret.x = witnessed.val.x
    /\ ret.y = witnessed.val.y
    /\ ret.witness = witnessed.val.witness

----------------------------------------------------------------------------
\* C1 - Evaluation soundness: when y = P(x) for the committed P,
\* create_witness((x, y)) returns Ok(witness), and verify_eval((x, y),
\* commit(P), witness) on that witness returns true.
C1_EvaluationSoundness ==
    /\ (ret.op = "create_witness" /\ polynomial.some
          /\ ret.y = Evaluate(polynomial.val.coeffs, ret.x))
       => ret.result.ok
    /\ (VerifiedHeldWitness /\ ret.commitment = committed.val.commitment)
       => ret.result = TRUE

\* C2 - Commitment soundness: verify_poly(commit(P), P) returns true,
\* whatever the prover committed to before.
C2_CommitmentSoundness ==
    (ret.op = "verify_poly" /\ committed.some
       /\ ret.commitment = committed.val.commitment
       /\ ret.polynomial = committed.val.polynomial)
    => ret.result = TRUE

C2_Witness ==
    /\ ret.op = "verify_poly"
    /\ committed.some
    /\ committed.val.overwrote
    /\ ret.commitment = committed.val.commitment
    /\ ret.polynomial = committed.val.polynomial
    /\ ret.polynomial.coeffs[MAX_DEGREE - 1] # FrZero
    /\ trapdoor # FrZero
    /\ ret.result = TRUE

\* C3 - Evaluation binding: with P committed and y' # P(x),
\* create_witness((x, y')) returns Err(PointNotOnPolynomial) and no witness;
\* that error is returned exactly when the long division of P(X) - y' by
\* X - x leaves a remainder.
C3_EvaluationBinding ==
    (ret.op = "create_witness" /\ polynomial.some)
    => LET P        == polynomial.val
           dividend == [P EXCEPT !.coeffs[0] = FrSub(P.coeffs[0], ret.y)]
           divisor  == new_from_coeffs(
                           [i \in Idx |-> IF i = 0 THEN FrNeg(ret.x)
                                          ELSE IF i = 1 THEN FrOne
                                          ELSE FrZero], 1)
       IN  /\ ret.y # Evaluate(P.coeffs, ret.x)
                => IsErr(ret.result, PointNotOnPolynomial)
           /\ IsErr(ret.result, PointNotOnPolynomial)
                <=> long_division(dividend, divisor).remainder.some

C3_Witness ==
    /\ ret.op = "create_witness"
    /\ polynomial.some
    /\ polynomial.val.coeffs[MAX_DEGREE - 1] # FrZero
    /\ ret.y # Evaluate(polynomial.val.coeffs, ret.x)
    /\ IsErr(ret.result, PointNotOnPolynomial)

C5_LatestCommitWins ==
    /\ (ret.op = "open" /\ committed.some)
       => /\ ret.result.ok
          /\ ret.result.val = committed.val.polynomial
    /\ (ret.op = "create_witness" /\ committed.some)
       => /\ ret.result.ok
             <=> ret.y = Evaluate(committed.val.polynomial.coeffs, ret.x)
          /\ ret.result = create_witness(parameters,
                              Some(committed.val.polynomial), ret.x, ret.y)

C5_Witness ==
    /\ ret.op = "open"
    /\ committed.some
    /\ committed.val.overwrote
    /\ ret.result.ok
    /\ ret.result.val = committed.val.polynomial
    /\ ret.result.val.degree > 0

\* C6 - Commitment binding, as claimed: for P # Q as coefficient vectors,
\* verify_poly(commit(P), Q) returns false.
C6_CommitmentBinding ==
    (ret.op = "verify_poly" /\ committed.some
       /\ ret.commitment = committed.val.commitment
       /\ ret.polynomial.coeffs # committed.val.polynomial.coeffs)
    => ret.result = FALSE

\* C6 - as amended: for P # Q as coefficient vectors,
\* verify_poly(commit(P), Q) returns false exactly when P(s) # Q(s); it
\* returns true for the Q that agree with P at the trapdoor s.
C6_BindingUpToTrapdoor ==
    (ret.op = "verify_poly" /\ committed.some
       /\ ret.commitment = committed.val.commitment
       /\ ret.polynomial.coeffs # committed.val.polynomial.coeffs)
    => (ret.result = FALSE
          <=> Evaluate(committed.val.polynomial.coeffs, trapdoor)
                # Evaluate(ret.polynomial.coeffs, trapdoor))

C6_Witness ==
    /\ ret.op = "verify_poly"
    /\ committed.some
    /\ ret.commitment = committed.val.commitment
    /\ ret.polynomial.coeffs # committed.val.polynomial.coeffs
    /\ ret.polynomial.coeffs[0] = committed.val.polynomial.coeffs[0]
    /\ trapdoor # FrZero
    /\ ret.result = FALSE

\* C7 - Cross-proof rejection: a witness returned by create_witness((x, y))
\* on a prover that committed P makes verify_eval((x, y), commit(Q), witness)
\* return false for every Q # P.  Stated for the Q whose commitment differs
\* from commit(P): the verifier sees only the commitment, so these are the
\* Q it can tell from P.
C7_CrossProofRejection ==
    VerifiedHeldWitness
    => \A Q \in Polynomials :
          (/\ Q.coeffs # committed.val.polynomial.coeffs
           /\ commit(verifier.parameters, Q) # committed.val.commitment
           /\ ret.commitment = commit(verifier.parameters, Q))
          => ret.result = FALSE

\* C8 - Pairing equation: verify_eval((x, y), C, W) returns true exactly
\* when e(W, hs[0] - x*h) = e(C - y*g, h).
C8_PairingEquation ==
    (ret.op = "verify_eval")
    => LET vp == verifier.parameters
       IN  ret.result
             <=> pairing(Dot0(ret.witness),
                         to_affine(Sub(to_curve(vp.hs[0]), Mul(vp.h, ret.x))))
                   = pairing(to_affine(Sub(to_curve(Dot0(ret.commitment)),
                                           Mul(vp.g, ret.y))),
                             vp.h)

\* C9 - Commitment encodes P(s): setup(s) stores gs[k] = s^(k+1) * g and
\* hs[k] = s^(k+1) * h, and commit(P) returns the canonical form of
\* a_0*g + a_1*gs[0] + ... + a_d*gs[d-1], which is P(s)*g.
C9_CommitmentEncodes ==
    /\ \A k \in Idx :
          /\ parameters.gs[k] = G1Of(Pow(trapdoor, k + 1))
          /\ parameters.hs[k] = G2Of(Pow(trapdoor, k + 1))
    /\ parameters.g = G1Of(FrOne)
    /\ parameters.h = G2Of(FrOne)
    /\ (ret.op = "commit")
       => LET a == ret.polynomial.coeffs
              d == ret.polynomial.degree
              sum[k \in 0 .. d] ==
                  IF k = 0 THEN FrMul(a[0], parameters.g.n)
                  ELSE FrAdd(sum[k - 1], FrMul(a[k], parameters.gs[k - 1].n))
          IN  /\ ret.result = KZGCommitment(G1Of(sum[d]))
              /\ ret.result = KZGCommitment(G1Of(Evaluate(a, trapdoor)))

C9_Witness ==
    /\ ret.op = "commit"
    /\ ret.polynomial.degree = MAX_DEGREE - 1
    /\ \A i \in Idx : ret.polynomial.coeffs[i] # FrZero
    /\ trapdoor \notin {FrZero, FrOne}
    /\ ret.result = KZGCommitment(G1Of(Evaluate(ret.polynomial.coeffs, trapdoor)))

\* C10 - create_witness has no side effects: whatever it returns, the
\* prover's polynomial, parameters and reserved fields are after the call
\* what they were before it, and so is what open() returns.
C10_CreateWitnessFrame ==
    [][ret'.op = "create_witness"
         => /\ polynomial' = polynomial
            /\ parameters' = parameters
            /\ commitment' = commitment
            /\ batch_witness' = batch_witness
            /\ witnesses' = witnesses
            /\ open(polynomial') = open(polynomial)]_vars

C10_Witness ==
    /\ ret.op = "create_witness"
    /\ ret.result.ok
    /\ ret.y # FrZero
    /\ polynomial.some
    /\ polynomial.val.coeffs[0] = ret.y

====
